---------------------------- MODULE Spec2Model ----------------------------
(* Model of the wardrobe-assistant recommendation engine                   *)
(* (backend/app/services/recommendation_engine.py): the outfit composer    *)
(* generate_recommendations and the usage analyser analyze_wardrobe_usage. *)
(*                                                                         *)
(* Real numbers are kept exactly, as integers in units of 1/1200: every    *)
(* literal of the code is a multiple of 0.05 and the only divisions are a  *)
(* mean over 1..4 factors and a product with 0.1, all exact in this unit.  *)
EXTENDS Integers, Sequences, FiniteSets, TLC

\* ------------------------------------------------------------------ bounds
\* Largest number of items in a wardrobe handed to generate_recommendations.
MaxWardrobe == 3

\* --------------------------------------------------------------- the state
\* The RecommendationEngine instance of the module: its three tables.
VARIABLE engine
\* generate_recommendations: the local list recommendations.
VARIABLE recommendations

\* ------------------------------------------------------------- real numbers
\* 0.1 in model units; Dec(t) is t tenths, One is 1.0.
Tenth == 12 * 10
Dec(t) == t * Tenth
One == Dec(10)
Min(a, b) == IF a < b THEN a ELSE b
Max(a, b) == IF a > b THEN a ELSE b

\* ---------------------------------------------------------------- outcomes
\* What a call ends with: it returns a value, or an exception leaves it.
Returned(v) == [raised |-> FALSE, value |-> v]
Raised(v) == [raised |-> TRUE, value |-> v]

\* -------------------------------------------------------------- sequences
\* x in a Python list.
InList(x, s) == \E k \in 1..Len(s) : s[k] = x
\* s[:n] for n >= 0.
Take(s, n) == SubSeq(s, 1, Min(n, Len(s)))
\* sum of a sequence of integers.
RECURSIVE Sum(_)
Sum(s) == IF s = <<>> THEN 0 ELSE Head(s) + Sum(Tail(s))
\* The concatenation of a sequence of sequences.
RECURSIVE Flatten(_)
Flatten(ss) == IF ss = <<>> THEN <<>> ELSE Head(ss) \o Flatten(Tail(ss))

\* ----------------------------------------------------------------- strings
\* str.lower() on the strings the model uses: the mixed-case ones map to
\* their lower-case form, every other string of the model is lower-case.
LowerTable ==
  [s \in {"Blue", "BLACK", "Black", "Red", "RED", "FORMAL", "Casual", "CASUAL",
           "White"} |->
     CASE s = "Blue" -> "blue"
       [] s = "BLACK" -> "black"
       [] s = "Black" -> "black"
       [] s = "Red" -> "red"
       [] s = "RED" -> "red"
       [] s = "FORMAL" -> "formal"
       [] s = "Casual" -> "casual"
       [] s = "CASUAL" -> "casual"
       [] s = "White" -> "white"]
lower(s) == IF s \in DOMAIN LowerTable THEN LowerTable[s] ELSE s

\* None, for the type or the color of an item that has none.
None == "<None>"
\* x.lower() raises AttributeError when x is None.
lower_raises(x) == x = None

\* ------------------------------------------------------ the engine's tables
\* The tables __init__ builds. The keys of self.color_harmony, in the dict's
\* insertion order:
color_harmony_groups == <<"neutral", "warm", "cool", "earth">>
color_harmony_table ==
  [g \in {"neutral", "warm", "cool", "earth"} |->
     CASE g = "neutral" -> <<"black", "white", "grey", "gray", "beige", "cream", "navy">>
       [] g = "warm" -> <<"red", "orange", "yellow", "pink", "burgundy", "brown">>
       [] g = "cool" -> <<"blue", "green", "purple", "turquoise", "teal">>
       [] g = "earth" -> <<"brown", "tan", "khaki", "olive", "beige">>]

weather_mapping_table ==
  [c \in {"hot", "warm", "cool", "cold"} |->
     CASE c = "hot" -> <<"shorts", "tank_top", "t-shirt", "dress", "sandals", "light_fabric">>
       [] c = "warm" -> <<"jeans", "t-shirt", "shirt", "sneakers", "dress">>
       [] c = "cool" -> <<"jeans", "sweater", "jacket", "boots", "long_sleeve">>
       [] c = "cold" -> <<"coat", "sweater", "boots", "scarf", "thick_fabric", "layering">>]

event_styles_table ==
  [e \in {"work", "casual", "formal", "party", "outdoor", "date", "workout"} |->
     CASE e = "work" -> <<"formal", "business_casual", "professional">>
       [] e = "casual" -> <<"casual", "comfortable", "everyday">>
       [] e = "formal" -> <<"formal", "dress_up", "elegant", "sophisticated">>
       [] e = "party" -> <<"trendy", "stylish", "fun", "colorful">>
       [] e = "outdoor" -> <<"casual", "comfortable", "practical", "layering">>
       [] e = "date" -> <<"stylish", "attractive", "confident", "nice">>
       [] e = "workout" -> <<"activewear", "comfortable", "breathable">>]

\* RecommendationEngine(): the instance as __init__ leaves it.
RecommendationEngine ==
  [color_harmony |-> color_harmony_table,
   weather_mapping |-> weather_mapping_table,
   event_styles |-> event_styles_table]

\* self.color_harmony, self.weather_mapping and self.event_styles: the tables
\* of the instance, as they are when they are read.
color_harmony == engine.color_harmony
weather_mapping == engine.weather_mapping
event_styles == engine.event_styles

\* The type lists of the six buckets of _create_outfit_combination.
\* The tops without the t-shirt and the tank top.
TopTypes_sleeved == {"shirt", "blouse", "sweater"}
TopTypes == {"shirt", "t-shirt", "blouse", "sweater", "tank_top"}
BottomTypes == {"pants", "jeans", "shorts", "skirt"}
ShoeTypes == {"shoes"}
OuterwearTypes == {"jacket", "coat", "blazer", "cardigan"}
DressTypes == {"dress"}
\* The accessories with the shoes among them: two buckets share a type.
AccessoryTypes_with_shoes == {"accessories", "scarf", "bag", "belt", "shoes"}
AccessoryTypes == {"accessories", "scarf", "bag", "belt"}


\* --------------------------------------------------------- scoring helpers
\* Temperatures are integers in tenths of a degree; Deg(d) is d degrees.
Deg(d) == d * 10

\* The harmony score with the neutral rule tried before the group rule.
calculate_color_harmony_neutral_first(c1, c2) ==
  LET color1_lower == lower(c1)
      color2_lower == lower(c2)
  IN  IF color1_lower = color2_lower THEN Dec(9)
      ELSE IF \/ InList(color1_lower, color_harmony["neutral"])
              \/ InList(color2_lower, color_harmony["neutral"])
           THEN Dec(7)
      ELSE IF \E k \in 1..Len(color_harmony_groups) :
                /\ InList(color1_lower, color_harmony[color_harmony_groups[k]])
                /\ InList(color2_lower, color_harmony[color_harmony_groups[k]])
           THEN Dec(8)
      ELSE Dec(5)

\* _calculate_color_harmony: the first matching rule decides.
calculate_color_harmony(c1, c2) ==
  LET color1_lower == lower(c1)
      color2_lower == lower(c2)
  IN  IF color1_lower = color2_lower THEN Dec(9)
      ELSE IF \E k \in 1..Len(color_harmony_groups) :
                /\ InList(color1_lower, color_harmony[color_harmony_groups[k]])
                /\ InList(color2_lower, color_harmony[color_harmony_groups[k]])
           THEN Dec(8)
      ELSE IF \/ InList(color1_lower, color_harmony["neutral"])
              \/ InList(color2_lower, color_harmony["neutral"])
           THEN Dec(7)
      ELSE Dec(5)

\* _needs_outerwear with the temperature test as <= 15.
needs_outerwear_from_fifteen(weather) ==
  IF ~weather.given THEN FALSE
  ELSE \/ weather.temperature <= Deg(15)
       \/ weather.condition \in {"rainy", "snowy", "windy"}

\* _needs_outerwear. A weather context is [given, temperature, condition];
\* given = FALSE stands for None (and for the empty dict, equally falsy).
needs_outerwear(weather) ==
  IF ~weather.given THEN FALSE
  ELSE \/ weather.temperature < Deg(15)
       \/ weather.condition \in {"rainy", "snowy", "windy"}

\* The band with >= for > at each threshold.
weather_category_inclusive(temp) ==
  IF temp >= Deg(25) THEN "hot"
  ELSE IF temp >= Deg(15) THEN "warm"
  ELSE IF temp >= Deg(5) THEN "cool"
  ELSE "cold"

\* The if/elif chain of _is_weather_appropriate that names the band.
weather_category(temp) ==
  IF temp > Deg(25) THEN "hot"
  ELSE IF temp > Deg(15) THEN "warm"
  ELSE IF temp > Deg(5) THEN "cool"
  ELSE "cold"

\* next((item for item in all_items if item.id == item_id), None): the first
\* item with that id, as a sequence of length 1, or <<>> for None.
find_item(all_items, item_id) ==
  LET hits == SelectSeq(all_items, LAMBDA it : it.id = item_id)
  IN  Take(hits, 1)

\* The items an outfit's ids resolve to, in outfit order (ids that resolve to
\* nothing are skipped, as `if item:` does).
outfit_lookup(outfit_items, all_items) ==
  Flatten([k \in 1..Len(outfit_items) |-> find_item(all_items, outfit_items[k])])

\* _is_weather_appropriate with the types of the items alone, not their tags.
is_weather_appropriate_types_only(outfit_items, all_items, weather) ==
  IF ~weather.given THEN TRUE
  ELSE LET weather_cat == weather_category(weather.temperature)
           appropriate_types == weather_mapping[weather_cat]
           found == outfit_lookup(outfit_items, all_items)
           outfit_types == [k \in 1..Len(found) |-> found[k].type]
       IN  \E k \in 1..Len(appropriate_types) :
             InList(appropriate_types[k], outfit_types)

\* _is_weather_appropriate.
is_weather_appropriate(outfit_items, all_items, weather) ==
  IF ~weather.given THEN TRUE
  ELSE LET weather_cat == weather_category(weather.temperature)
           appropriate_types == weather_mapping[weather_cat]
           found == outfit_lookup(outfit_items, all_items)
           outfit_types == Flatten([k \in 1..Len(found) |->
                                      <<found[k].type>> \o found[k].tags])
       IN  \E k \in 1..Len(appropriate_types) :
             InList(appropriate_types[k], outfit_types)

\* _matches_event with the tags lower-cased before they are compared.
matches_event_lowered_tags(outfit_items, all_items, event) ==
  IF event = "" THEN TRUE
  ELSE LET appropriate_styles ==
             IF lower(event) \in DOMAIN event_styles
             THEN event_styles[lower(event)] ELSE <<>>
           found == outfit_lookup(outfit_items, all_items)
           outfit_tags == Flatten([k \in 1..Len(found) |->
                            [j \in 1..Len(found[k].tags) |-> lower(found[k].tags[j])]])
       IN  IF appropriate_styles = <<>> THEN TRUE
           ELSE \/ \E k \in 1..Len(found) :
                     found[k].is_formal /\ lower(event) \in {"work", "formal"}
                \/ \E k \in 1..Len(appropriate_styles) :
                     InList(appropriate_styles[k], outfit_tags)

\* _matches_event without the is_formal shortcut: tags alone decide.
matches_event_tags_only(outfit_items, all_items, event) ==
  IF event = "" THEN TRUE
  ELSE LET appropriate_styles ==
             IF lower(event) \in DOMAIN event_styles
             THEN event_styles[lower(event)] ELSE <<>>
           found == outfit_lookup(outfit_items, all_items)
           outfit_tags == Flatten([k \in 1..Len(found) |-> found[k].tags])
       IN  IF appropriate_styles = <<>> THEN TRUE
           ELSE \E k \in 1..Len(appropriate_styles) :
                  InList(appropriate_styles[k], outfit_tags)

\* _matches_event. The event is a string, "" standing for None (`not event`
\* takes the same branch for both). The loop returns early on the first
\* resolved item that is_formal when the event is work or formal.
matches_event(outfit_items, all_items, event) ==
  IF event = "" THEN TRUE
  ELSE LET appropriate_styles ==
             IF lower(event) \in DOMAIN event_styles
             THEN event_styles[lower(event)] ELSE <<>>
           found == outfit_lookup(outfit_items, all_items)
           outfit_tags == Flatten([k \in 1..Len(found) |-> found[k].tags])
       IN  IF appropriate_styles = <<>> THEN TRUE
           ELSE \/ \E k \in 1..Len(found) :
                     found[k].is_formal /\ lower(event) \in {"work", "formal"}
                \/ \E k \in 1..Len(appropriate_styles) :
                     InList(appropriate_styles[k], outfit_tags)

\* _calculate_style_score without any .lower(): letter case counts.
calculate_style_score_case_sensitive(outfit_items, all_items, preferences) ==
  IF ~preferences.given THEN Dec(5)
  ELSE LET found == outfit_lookup(outfit_items, all_items)
           favorite_colors == preferences.favorite_colors
           preferred_styles == preferences.preferred_styles
           outfit_colors == [k \in 1..Len(found) |-> found[k].color]
           color_matches ==
             Cardinality({k \in 1..Len(outfit_colors) :
                            InList(outfit_colors[k], favorite_colors)})
           outfit_tags == Flatten([k \in 1..Len(found) |-> found[k].tags])
           style_matches ==
             Cardinality({k \in 1..Len(preferred_styles) :
                            InList(preferred_styles[k], outfit_tags)})
           color_bonus == IF favorite_colors # <<>> /\ color_matches > 0 THEN Dec(2) ELSE 0
           style_bonus == IF preferred_styles # <<>> /\ style_matches > 0 THEN Dec(2) ELSE 0
       IN  Min(One, Dec(5) + color_bonus + style_bonus)

\* _calculate_style_score. Preferences are [given, favorite_colors,
\* preferred_styles]; given = FALSE stands for None (or the empty dict).
calculate_style_score(outfit_items, all_items, preferences) ==
  IF ~preferences.given THEN Dec(5)
  ELSE LET found == outfit_lookup(outfit_items, all_items)
           favorite_colors == preferences.favorite_colors
           preferred_styles == preferences.preferred_styles
           outfit_colors == [k \in 1..Len(found) |-> lower(found[k].color)]
           favorite_lower == [k \in 1..Len(favorite_colors) |-> lower(favorite_colors[k])]
           color_matches ==
             Cardinality({k \in 1..Len(outfit_colors) :
                            InList(outfit_colors[k], favorite_lower)})
           outfit_tags == Flatten([k \in 1..Len(found) |->
                             [j \in 1..Len(found[k].tags) |-> lower(found[k].tags[j])]])
           style_matches ==
             Cardinality({k \in 1..Len(preferred_styles) :
                            InList(lower(preferred_styles[k]), outfit_tags)})
           color_bonus == IF favorite_colors # <<>> /\ color_matches > 0 THEN Dec(2) ELSE 0
           style_bonus == IF preferred_styles # <<>> /\ style_matches > 0 THEN Dec(2) ELSE 0
       IN  Min(One, Dec(5) + color_bonus + style_bonus)

\* _calculate_style_score raises at item.color.lower() (line 268): favorite
\* colors are given and an item of the outfit has no color.
style_score_raises(outfit_items, all_items, preferences) ==
  /\ preferences.given
  /\ preferences.favorite_colors # <<>>
  /\ LET found == outfit_lookup(outfit_items, all_items)
     IN  \E k \in 1..Len(found) : lower_raises(found[k].color)

\* ------------------------------------------------------ the outfit composer
\* A bucket that also takes the items of a type no bucket lists.
bucket_or_unlisted(items, types) ==
  SelectSeq(items, LAMBDA it :
    \/ it.type \in types
    \/ it.type \notin (TopTypes \cup BottomTypes \cup ShoeTypes \cup OuterwearTypes
                         \cup DressTypes \cup AccessoryTypes))

\* [item for item in items if item.type in types]: a bucket, in input order.
bucket(items, types) == SelectSeq(items, LAMBDA it : it.type \in types)

\* The positions random.choice can return in a bucket when it is called on it;
\* 0 when it is not called (the bucket is empty, or the branch not taken).
Picks(called, b) == IF called /\ b # <<>> THEN 1..Len(b) ELSE {0}

\* The outcomes of `b and random.random() > p`: FALSE without a roll when the
\* bucket is empty, either value otherwise.
Rolls(b) == IF b = <<>> THEN {FALSE} ELSE BOOLEAN

\* The random draws of one _create_outfit_combination: dress_roll is
\* random.random() > 0.7, accessory_roll is random.random() > 0.6, the others
\* are the positions random.choice picks in the buckets it is called on.
RandomDraws(items) ==
  UNION { UNION {
    [dress_roll : {dress_roll},
     dress : Picks(dress_roll, bucket(items, DressTypes)),
     top : Picks(~dress_roll, bucket(items, TopTypes)),
     bottom : Picks(~dress_roll, bucket(items, BottomTypes)),
     shoe : Picks(TRUE, bucket(items, ShoeTypes)),
     outer : Picks(TRUE, bucket(items, OuterwearTypes)),
     accessory_roll : {accessory_roll},
     accessory : Picks(accessory_roll, bucket(items, AccessoryTypes))] :
    accessory_roll \in Rolls(bucket(items, AccessoryTypes)) } :
    dress_roll \in Rolls(bucket(items, DressTypes)) }

\* The confidence left as computed, without the clamp.
clamp01_unclamped(x) == x

\* min(1.0, max(0.0, x)).
clamp01(x) == Min(One, Max(0, x))

\* A scorer that reads the candidates drawn so far: an outfit that is already
\* among them loses 0.1 of its base confidence.
score_outfit_marking_down_repeats(outfit_items, confidence_factors, items, event, weather, preferences) ==
  LET weather_appropriate == is_weather_appropriate(outfit_items, items, weather)
      event_match == matches_event(outfit_items, items, event)
      style_score == calculate_style_score(outfit_items, items, preferences)
      repeated == \E k \in 1..Len(recommendations) : recommendations[k].items = outfit_items
      base_confidence ==
        (IF confidence_factors # <<>>
         THEN Sum(confidence_factors) \div Len(confidence_factors)
         ELSE Dec(5))
        - (IF repeated THEN Dec(1) ELSE 0)
      weather_bonus == IF weather_appropriate THEN Dec(2) ELSE 0 - Dec(3)
      event_bonus == IF event_match THEN Dec(2) ELSE 0 - Dec(1)
      style_bonus == style_score \div 10
  IN  [items |-> outfit_items,
       confidence |-> clamp01(base_confidence + weather_bonus + event_bonus + style_bonus),
       weather_appropriate |-> weather_appropriate,
       event_match |-> event_match,
       style_score |-> style_score]

\* The scores with the two penalties taken for one another: -0.1 for the
\* weather, -0.3 for the event.
score_outfit_penalties_swapped(outfit_items, confidence_factors, items, event, weather, preferences) ==
  LET weather_appropriate == is_weather_appropriate(outfit_items, items, weather)
      event_match == matches_event(outfit_items, items, event)
      style_score == calculate_style_score(outfit_items, items, preferences)
      base_confidence ==
        IF confidence_factors # <<>>
        THEN Sum(confidence_factors) \div Len(confidence_factors)
        ELSE Dec(5)
      weather_bonus == IF weather_appropriate THEN Dec(2) ELSE 0 - Dec(1)
      event_bonus == IF event_match THEN Dec(2) ELSE 0 - Dec(3)
      style_bonus == style_score \div 10
  IN  [items |-> outfit_items,
       confidence |-> clamp01(base_confidence + weather_bonus + event_bonus + style_bonus),
       weather_appropriate |-> weather_appropriate,
       event_match |-> event_match,
       style_score |-> style_score]

\* Lines 144-171 of _create_outfit_combination: the scores and the confidence
\* of an assembled outfit. The reasoning string is left out: nothing reads it.
score_outfit(outfit_items, confidence_factors, items, event, weather, preferences) ==
  LET weather_appropriate == is_weather_appropriate(outfit_items, items, weather)
      event_match == matches_event(outfit_items, items, event)
      style_score == calculate_style_score(outfit_items, items, preferences)
      base_confidence ==
        IF confidence_factors # <<>>
        THEN Sum(confidence_factors) \div Len(confidence_factors)
        ELSE Dec(5)
      weather_bonus == IF weather_appropriate THEN Dec(2) ELSE 0 - Dec(3)
      event_bonus == IF event_match THEN Dec(2) ELSE 0 - Dec(1)
      style_bonus == style_score \div 10
  IN  [items |-> outfit_items,
       confidence |-> clamp01(base_confidence + weather_bonus + event_bonus + style_bonus),
       weather_appropriate |-> weather_appropriate,
       event_match |-> event_match,
       style_score |-> style_score]

\* The guard with `and` for `or`: one empty bucket gets past it.
base_missing_both(tops, bottoms) == tops = <<>> /\ bottoms = <<>>

\* `if not tops or not bottoms: return None`.
base_missing(tops, bottoms) == tops = <<>> \/ bottoms = <<>>

\* _create_outfit_combination with the outerwear added before the shoes.
create_outfit_combination_outerwear_first(items, event, weather, preferences, r) ==
  LET tops == bucket(items, TopTypes)
      bottoms == bucket(items, BottomTypes)
      shoes == bucket(items, ShoeTypes)
      outerwear == bucket(items, OuterwearTypes)
      dresses == bucket(items, DressTypes)
      accessories == bucket(items, AccessoryTypes)
      use_dress == r.dress_roll
      base_items ==
        IF use_dress THEN <<dresses[r.dress].id>>
        ELSE <<tops[r.top].id, bottoms[r.bottom].id>>
      base_factors ==
        IF use_dress THEN <<Dec(8)>>
        ELSE <<calculate_color_harmony(tops[r.top].color, bottoms[r.bottom].color)>>
      with_shoes == shoes # <<>>
      with_outer == weather.given /\ needs_outerwear(weather) /\ outerwear # <<>>
      with_accessory == r.accessory_roll
      outfit_items ==
        base_items
          \o (IF with_outer THEN <<outerwear[r.outer].id>> ELSE <<>>)
          \o (IF with_shoes THEN <<shoes[r.shoe].id>> ELSE <<>>)
          \o (IF with_accessory THEN <<accessories[r.accessory].id>> ELSE <<>>)
      confidence_factors ==
        base_factors
          \o (IF with_shoes THEN <<Dec(7)>> ELSE <<>>)
          \o (IF with_outer THEN <<Dec(8)>> ELSE <<>>)
          \o (IF with_accessory THEN <<Dec(6)>> ELSE <<>>)
  IN  IF ~use_dress /\ base_missing(tops, bottoms) THEN Returned(<<>>)
      ELSE IF ~use_dress /\ (tops = <<>> \/ bottoms = <<>>) THEN Raised("IndexError")
      ELSE IF ~use_dress /\ (\/ lower_raises(tops[r.top].color)
                              \/ lower_raises(bottoms[r.bottom].color))
           THEN Raised("AttributeError")
      ELSE IF style_score_raises(outfit_items, items, preferences)
           THEN Raised("AttributeError")
      ELSE Returned(<<score_outfit(outfit_items, confidence_factors, items, event,
                                   weather, preferences)>>)

\* _create_outfit_combination under the random draws r. It returns a sequence
\* holding the one recommendation, or <<>> for None (the draw is discarded);
\* random.choice on an empty bucket would raise IndexError, and .lower() on a
\* color that is None raises AttributeError, in _calculate_color_harmony
\* (line 175) or in _calculate_style_score (line 268).
create_outfit_combination(items, event, weather, preferences, r) ==
  LET tops == bucket(items, TopTypes)
      bottoms == bucket(items, BottomTypes)
      shoes == bucket(items, ShoeTypes)
      outerwear == bucket(items, OuterwearTypes)
      dresses == bucket(items, DressTypes)
      accessories == bucket(items, AccessoryTypes)
      use_dress == r.dress_roll
      base_items ==
        IF use_dress THEN <<dresses[r.dress].id>>
        ELSE <<tops[r.top].id, bottoms[r.bottom].id>>
      base_factors ==
        IF use_dress THEN <<Dec(8)>>
        ELSE <<calculate_color_harmony(tops[r.top].color, bottoms[r.bottom].color)>>
      with_shoes == shoes # <<>>
      with_outer == weather.given /\ needs_outerwear(weather) /\ outerwear # <<>>
      with_accessory == r.accessory_roll
      outfit_items ==
        base_items
          \o (IF with_shoes THEN <<shoes[r.shoe].id>> ELSE <<>>)
          \o (IF with_outer THEN <<outerwear[r.outer].id>> ELSE <<>>)
          \o (IF with_accessory THEN <<accessories[r.accessory].id>> ELSE <<>>)
      confidence_factors ==
        base_factors
          \o (IF with_shoes THEN <<Dec(7)>> ELSE <<>>)
          \o (IF with_outer THEN <<Dec(8)>> ELSE <<>>)
          \o (IF with_accessory THEN <<Dec(6)>> ELSE <<>>)
  IN  IF ~use_dress /\ base_missing(tops, bottoms) THEN Returned(<<>>)
      ELSE IF ~use_dress /\ (tops = <<>> \/ bottoms = <<>>) THEN Raised("IndexError")
      ELSE IF ~use_dress /\ (\/ lower_raises(tops[r.top].color)
                              \/ lower_raises(bottoms[r.bottom].color))
           THEN Raised("AttributeError")
      ELSE IF style_score_raises(outfit_items, items, preferences)
           THEN Raised("AttributeError")
      ELSE Returned(<<score_outfit(outfit_items, confidence_factors, items, event,
                                   weather, preferences)>>)

\* Python's sort with reverse=True on the keys key[i] of s[i]: stable, so an
\* element goes after every element with a larger key and after the earlier
\* elements with an equal key.
sorted_reverse(s, key) ==
  LET n == Len(s)
      rank == [i \in 1..n |->
                 Cardinality({j \in 1..n : key[j] > key[i]})
                 + Cardinality({j \in 1..(i - 1) : key[j] = key[i]})
                 + 1]
  IN  [p \in 1..n |-> s[CHOOSE i \in 1..n : rank[i] = p]]

\* The sort without reverse=True: ascending, stable.
sort_by_confidence_ascending(recs) ==
  LET n == Len(recs)
      rank(i) == Cardinality({j \in 1..n : recs[j].confidence < recs[i].confidence})
                 + Cardinality({j \in 1..(i - 1) : recs[j].confidence = recs[i].confidence})
                 + 1
  IN  [p \in 1..n |-> recs[CHOOSE i \in 1..n : rank(i) = p]]

\* recommendations.sort(key=lambda x: x.confidence, reverse=True).
sort_by_confidence(recs) ==
  sorted_reverse(recs, [i \in 1..Len(recs) |-> recs[i].confidence])

\* The candidate draws per requested recommendation: range(count * 3).
Oversample == 3

\* ------------------------------------------------------------------ inputs
\* A ClothingItem: name, last_worn and is_seasonal are left out (the engine
\* reads them only to build the reasoning string, or not at all).
Item(id, type, color, tags, usage_count, is_formal) ==
  [id |-> id, type |-> type, color |-> color, tags |-> tags,
   usage_count |-> usage_count, is_formal |-> is_formal]

\* The items wardrobes are made of: those of the mock wardrobe of the smart
\* recommendations endpoint (without its blazer, the t-shirt in another
\* colour), and a dress, an accessory and an item of a type no bucket lists.
Catalogue ==
  << Item("item1", "jeans", "blue", <<"casual", "everyday">>, 8, FALSE),
     Item("item2", "t-shirt", "Blue", <<"Casual", "basic">>, 12, FALSE),
     Item("item3", "shoes", "black", <<"casual", "comfortable">>, 10, FALSE),
     Item("item4", "jacket", "blue", <<"casual", "layering">>, 5, FALSE),
     Item("item6", "shirt", "white", <<"formal", "professional">>, 6, TRUE),
     Item("item7", "pants", "black", <<"formal", "professional">>, 4, TRUE),
     Item("item8", "dress", "Red", <<>>, 2, TRUE),
     Item("item9", "scarf", "green", <<"trendy">>, 1, FALSE),
     Item("item10", "hat", "Blue", <<"Casual">>, 0, FALSE) >>

\* The items of s at the positions in idx, in the order of s.
RECURSIVE Subsequence(_, _)
Subsequence(s, idx) ==
  IF s = <<>> THEN <<>>
  ELSE (IF Len(s) \in idx THEN Subsequence(SubSeq(s, 1, Len(s) - 1), idx) \o <<s[Len(s)]>>
        ELSE Subsequence(SubSeq(s, 1, Len(s) - 1), idx))

\* Every wardrobe of at most MaxWardrobe catalogue items (ids are unique).
Wardrobes ==
  {Subsequence(Catalogue, idx) :
     idx \in {x \in SUBSET (1..Len(Catalogue)) : Cardinality(x) <= MaxWardrobe}}

\* Events: absent, known in several letter cases, known and informal, unknown.
Events == {"", "work", "FORMAL", "casual", "picnic"}

NoWeather == [given |-> FALSE, temperature |-> 0, condition |-> ""]
Weather(temperature, condition) ==
  [given |-> TRUE, temperature |-> temperature, condition |-> condition]

NoPreferences == [given |-> FALSE, favorite_colors |-> <<>>, preferred_styles |-> <<>>]
Preferences(favorite_colors, preferred_styles) ==
  [given |-> TRUE, favorite_colors |-> favorite_colors,
   preferred_styles |-> preferred_styles]
\* The preferences the smart recommendations endpoint passes.
EndpointPreferences == Preferences(<<"blue", "white">>, <<"casual">>)

\* The contexts of a call: nothing given, each event alone, a weather alone
\* (15 degrees and sunny, a tenth below 15 and sunny, 20 degrees and windy),
\* preferences alone, and two contexts that give all three.
Context(e, w, p) == [event |-> e, weather |-> w, user_preferences |-> p]
Contexts ==
  {Context(e, NoWeather, NoPreferences) : e \in Events}
    \cup {Context("", Weather(Deg(15), "sunny"), NoPreferences),
          Context("", Weather(Deg(15) - 1, "sunny"), NoPreferences),
          Context("", Weather(Deg(20), "windy"), NoPreferences),
          Context("", NoWeather, EndpointPreferences),
          Context("work", Weather(Deg(5), "rainy"), EndpointPreferences),
          Context("party", Weather(Deg(26), "sunny"),
                  Preferences(<<"RED">>, <<"CASUAL">>))}

\* The counts of a call: the loop runs 3 or 6 times.
Counts == {1, 2}

\* Nothing given, and the two contexts that give event, weather and preferences.
OutfitContexts ==
  {Context("", NoWeather, NoPreferences),
   Context("work", Weather(Deg(5), "rainy"), EndpointPreferences),
   Context("party", Weather(Deg(26), "sunny"), Preferences(<<"RED">>, <<"CASUAL">>))}

\* The calls, but for the wardrobe: every context with count 1, and the
\* contexts of OutfitContexts with every count.
Call(c, n) == [context |-> c, count |-> n]
Calls ==
  {Call(c, 1) : c \in Contexts} \cup {Call(c, n) : c \in OutfitContexts, n \in Counts}

\* ------------------------------------------------------ the usage analyser
\* The caps of the report: rarely_worn[:10] and sorted(...)[:5].
RarelyWornCap == 10
MostWornCap == 5

\* The quotient cut to one decimal instead of rounded.
round_tenths_floor(total, n) == (10 * total) \div n

\* round(total / n, 1) in tenths, for n >= 1: the nearest tenth, a tie going
\* to the even one. A tie is a quotient k/20 with k odd; for n < 20 such a
\* quotient is an odd multiple of 1/4, which a float holds exactly, so that
\* Python's round sees the tie and rounds it half to even.
round_tenths(total, n) ==
  LET q == (10 * total) \div n
      r == (10 * total) % n
  IN  IF 2 * r < n THEN q
      ELSE IF 2 * r > n THEN q + 1
      ELSE IF q % 2 = 0 THEN q ELSE q + 1

\* {'id': item.id, 'name': item.name, 'usage_count': item.usage_count}; the
\* name goes wherever the id goes and is left out.
report_entry(item) == [id |-> item.id, usage_count |-> item.usage_count]

\* A dict of counts: the keys keyOf[i] of the entries, each with the number of
\* entries that have it.
count_by(keyOf) ==
  [k \in {keyOf[i] : i \in 1..Len(keyOf)} |->
     Cardinality({i \in 1..Len(keyOf) : keyOf[i] = k})]

\* dict.get(key, 0).
get0(d, key) == IF key \in DOMAIN d THEN d[key] ELSE 0

\* sum(item.usage_count for item in items).
total_usage_of(its) == Sum([i \in 1..Len(its) |-> its[i].usage_count])

\* The items below the average itself, not below half of it.
rarely_worn_items_below_average(its) ==
  SelectSeq(its, LAMBDA it : Len(its) * it.usage_count < total_usage_of(its))

\* [item for item in items if item.usage_count < average_usage * 0.5], with
\* average_usage the exact quotient total_usage / total_items, so that the
\* test is 2 * total_items * usage_count < total_usage (the float comparison
\* agrees with it for the list lengths of the model).
rarely_worn_items(its) ==
  LET total_usage == total_usage_of(its)
  IN  SelectSeq(its, LAMBDA it : 2 * Len(its) * it.usage_count < total_usage)

\* An ascending stable sort read from its end: equal items come out in the
\* reverse of their input order.
most_worn_items_reversed_ascending(its) ==
  LET n == Len(its)
      rank(i) == Cardinality({j \in 1..n : its[j].usage_count > its[i].usage_count})
                 + Cardinality({j \in (i + 1)..n : its[j].usage_count = its[i].usage_count})
                 + 1
  IN  Take([p \in 1..n |-> its[CHOOSE i \in 1..n : rank(i) = p]], MostWornCap)

\* sorted(items, key=lambda x: x.usage_count, reverse=True)[:5].
most_worn_items(its) ==
  Take(sorted_reverse(its, [i \in 1..Len(its) |-> its[i].usage_count]), MostWornCap)

\* 'average_usage': round(average_usage, 1), in tenths, average_usage being
\* total_usage / total_items if total_items > 0 else 0.
reported_average(total_usage, total_items) ==
  IF total_items > 0 THEN round_tenths(total_usage, total_items) ELSE 0

\* The report of the early return for `not items`.
empty_report ==
  [total_items |-> 0, average_usage |-> 0, rarely_worn |-> <<>>,
   most_worn |-> <<>>, color_distribution |-> <<>>,
   type_distribution |-> <<>>, suggestions |-> <<>>]

\* The suggestions with the jeans test as >= 5.
suggestions_jeans_from_five(rarely_worn_count, black_count, jeans_count, total_items) ==
  (IF 10 * rarely_worn_count > 3 * total_items
   THEN <<"Consider donating or repurposing items you rarely wear">>
   ELSE <<>>)
  \o (IF 10 * black_count > 4 * total_items
      THEN <<"Try adding more colorful items to diversify your wardrobe">>
      ELSE <<>>)
  \o (IF jeans_count >= 5
      THEN <<"You have many jeans - consider other bottom types for variety">>
      ELSE <<>>)

\* Lines 325-333: the three tests, each appending its string, in this order.
\* x > total_items * 0.3 is 10 * x > 3 * total_items and x > total_items * 0.4
\* is 10 * x > 4 * total_items (the float comparisons agree with them for the
\* list lengths of the model).
suggestions_of(rarely_worn_count, black_count, jeans_count, total_items) ==
  (IF 10 * rarely_worn_count > 3 * total_items
   THEN <<"Consider donating or repurposing items you rarely wear">>
   ELSE <<>>)
  \o (IF 10 * black_count > 4 * total_items
      THEN <<"Try adding more colorful items to diversify your wardrobe">>
      ELSE <<>>)
  \o (IF jeans_count > 5
      THEN <<"You have many jeans - consider other bottom types for variety">>
      ELSE <<>>)

\* The number of rarely worn items the report lists: at most the cap.
rarely_worn_count_listed(rarely_worn) == Min(RarelyWornCap, Len(rarely_worn))

\* len(rarely_worn) of line 326: the list of line 307, before the [:10] of
\* line 338.
rarely_worn_count(rarely_worn) == Len(rarely_worn)

\* Lines 302-343 of analyze_wardrobe_usage, the path after the early return;
\* item.color.lower() (line 315) raises AttributeError on a color that is None.
usage_report(its) ==
       LET total_items == Len(its)
           total_usage == total_usage_of(its)
           rarely_worn == rarely_worn_items(its)
           most_worn == most_worn_items(its)
           color_distribution == count_by([i \in 1..Len(its) |-> lower(its[i].color)])
           type_distribution == count_by([i \in 1..Len(its) |-> its[i].type])
           suggestions ==
             suggestions_of(rarely_worn_count(rarely_worn),
                            get0(color_distribution, "black"),
                            get0(type_distribution, "jeans"), total_items)
       IN  IF \E i \in 1..Len(its) : lower_raises(its[i].color)
           THEN Raised("AttributeError")
           ELSE Returned(
             [total_items |-> total_items,
              average_usage |-> reported_average(total_usage, total_items),
              rarely_worn |-> [i \in 1..Min(RarelyWornCap, Len(rarely_worn)) |->
                                 report_entry(rarely_worn[i])],
              most_worn |-> [i \in 1..Len(most_worn) |-> report_entry(most_worn[i])],
              color_distribution |-> color_distribution,
              type_distribution |-> type_distribution,
              suggestions |-> suggestions])

\* The analyser with neither the early return nor the `if total_items > 0`
\* guard: total_usage / total_items raises on the empty list.
analyze_wardrobe_usage_unguarded(its) ==
  IF Len(its) = 0 THEN Raised("ZeroDivisionError") ELSE usage_report(its)

\* analyze_wardrobe_usage.
analyze_wardrobe_usage(its) ==
  IF its = <<>> THEN Returned(empty_report) ELSE usage_report(its)

\* -------------------------------------------------- inputs of the analyser
\* Largest item list handed to analyze_wardrobe_usage that is made of the two
\* kinds of LongKinds, and largest one made of the four kinds of WideKinds.
MaxLong == 12
MaxWide == 6
\* The length of the lists that begin with unworn jeans and go on with much
\* worn dresses: more than ten items are three tenths of such a list.
MaxBig == 34

\* An unworn pair of black jeans and a much worn blue dress.
Unworn == Item(0, "jeans", "black", <<>>, 0, FALSE)
MuchWorn == Item(0, "dress", "blue", <<>>, 20, FALSE)
LongKinds == {Unworn, MuchWorn}
\* Those two, a shirt worn once and jeans worn five times.
WideKinds ==
  LongKinds \cup
  { Item(0, "shirt", "Black", <<>>, 1, FALSE),
    Item(0, "jeans", "red", <<>>, 5, FALSE) }

\* The list of the items ks, the item at position i having id i.
ListOf(ks) == [i \in 1..Len(ks) |-> [ks[i] EXCEPT !.id = i]]

\* its is a list of at most MaxLong items of LongKinds or of at most MaxWide
\* items of WideKinds, or a list of MaxBig items, unworn ones then much worn
\* ones.
IsItemList(its) ==
  \/ \E shape \in {<<LongKinds, MaxLong>>, <<WideKinds, MaxWide>>} :
       \E len \in 0..shape[2] : \E ks \in [1..len -> shape[1]] : its = ListOf(ks)
  \/ \E unworn \in 0..MaxBig :
       its = ListOf([i \in 1..MaxBig |-> IF i <= unworn THEN Unworn ELSE MuchWorn])

\* The report variable before analyze_wardrobe_usage has returned.
NoReport ==
  [total_items |-> 0 - 1, average_usage |-> 0, rarely_worn |-> <<>>,
   most_worn |-> <<>>, color_distribution |-> <<>>,
   type_distribution |-> <<>>, suggestions |-> <<>>]

\* --------------------------------------------------- inputs of the lookups
\* Temperatures run over -MaxTemp..MaxTemp degrees and a tenth either side.
MaxTemp == 30
Temperatures ==
  {Deg(d) + e : d \in (0 - MaxTemp)..MaxTemp, e \in {0 - 1, 0, 1}}

\* Every colour of the harmony groups, some in other letter cases, and two
\* colours of no group.
Colors ==
  UNION {{color_harmony[g][k] : k \in 1..Len(color_harmony[g])} : g \in DOMAIN color_harmony}
    \cup {"Black", "BLACK", "Red", "Blue", "White", "magenta", "silver"}

\* ------------------------------------------------------ the state of calls
VARIABLES
  pc,                 \* where the call in progress is; "done" once it returned
  pc_usage,           \* where a call of analyze_wardrobe_usage that runs next to
                      \* a call of generate_recommendations is; "idle" if none
  wardrobe_items,     \* generate_recommendations: the argument wardrobe_items
  event,              \* the argument event
  weather,            \* the argument weather
  user_preferences,   \* the argument user_preferences
  count,              \* the argument count
  drawn,              \* iterations of the for loop that have run
  result,             \* the returned list
  items,              \* analyze_wardrobe_usage: the argument items
  report,             \* the returned report
  color1, color2,     \* _calculate_color_harmony: the arguments
  harmony,            \* its return value
  temperature,        \* the temperature whose band is looked up
  band,               \* the band
  clothing_items,     \* the table clothing_items: the row of each item id
  upload_dir,         \* the files in UPLOAD_DIR
  requests,           \* the requests to the wardrobe endpoints
  workers,            \* the server processes that serve them
  weather_temp,       \* get_smart_outfit_recommendations: the query parameter
  weather_condition   \* the query parameter weather_condition

\* ---------------------------------------------------- groups of variables
composer_vars == <<wardrobe_items, event, weather, user_preferences, count,
                   drawn, recommendations, result>>
analyser_vars == <<items, report>>
lookup_vars == <<color1, color2, harmony, temperature, band>>
store_vars == <<clothing_items, upload_dir, requests, workers>>
endpoint_vars == <<weather_temp, weather_condition>>
api_vars == <<store_vars, endpoint_vars>>
vars == <<engine, pc, pc_usage, composer_vars, analyser_vars, lookup_vars, api_vars>>

ComposerIdle ==
  /\ wardrobe_items = <<>> /\ event = "" /\ weather = NoWeather
  /\ user_preferences = NoPreferences /\ count = 1 /\ drawn = 0
  /\ recommendations = <<>> /\ result = <<>>
AnalyserIdle == items = <<>> /\ report = NoReport
LookupIdle ==
  /\ color1 = "" /\ color2 = "" /\ harmony = 0 - 1
  /\ temperature = 0 /\ band = ""
\* No request to the wardrobe endpoints and none to the recommendations
\* endpoint.
ApiIdle ==
  /\ clothing_items = <<>> /\ upload_dir = {} /\ requests = <<>> /\ workers = 1
  /\ weather_temp = 0 /\ weather_condition = ""

\* ------------------------------------------- what a call does to its input
\* The list with items.sort(key=..., reverse=True) for sorted(items, ...).
items_after_analyze_sorted_in_place(its) ==
  sorted_reverse(its, [i \in 1..Len(its) |-> its[i].usage_count])

\* The list handed to analyze_wardrobe_usage, as the call leaves it: the
\* comprehensions, sorted() and the slices build new lists, the two dicts are
\* new, and nothing assigns to an item or to self.
items_after_analyze(its) == its

\* The list with the items sorted in place by usage_count.
items_after_outfit_combination_sorted_in_place(its) ==
  sorted_reverse(its, [i \in 1..Len(its) |-> its[i].usage_count])

\* The list handed to _create_outfit_combination, as the call leaves it: the
\* six buckets are new lists, random.choice only reads, the three scoring
\* helpers only read, and nothing assigns to an item or to self.
items_after_outfit_combination(its) == its

\* ---------------------------------------------- generate_recommendations
\* A call of generate_recommendations has been entered.
Init ==
  /\ engine = RecommendationEngine
  /\ wardrobe_items \in Wardrobes
  /\ \E c \in Calls :
       /\ event = c.context.event
       /\ weather = c.context.weather
       /\ user_preferences = c.context.user_preferences
       /\ count = c.count
  /\ pc = "loop"
  /\ pc_usage = "idle"
  /\ drawn = 0
  /\ recommendations = <<>>
  /\ result = <<>>
  /\ AnalyserIdle
  /\ LookupIdle
  /\ ApiIdle

\* A loop that runs until count * 3 candidates are valid: a discarded draw
\* does not count.
drawn_after_retrying(n, candidate) == IF candidate = <<>> THEN n ELSE n + 1

\* `for _ in range(count * 3)`: an iteration counts whatever its candidate
\* (a list of one recommendation, or the empty list for None).
drawn_after(n, candidate) == n + 1

\* One iteration of `for _ in range(count * 3)`: a candidate is drawn and
\* appended unless it is None. An exception in the draw leaves the call.
DrawCall ==
  /\ pc = "loop"
  /\ drawn < count * Oversample
  /\ \E r \in RandomDraws(wardrobe_items) :
       \E o \in {create_outfit_combination(wardrobe_items, event, weather,
                                           user_preferences, r)} :
         IF o.raised
         THEN pc' = "raised" /\ UNCHANGED <<recommendations, drawn>>
         ELSE /\ recommendations' = recommendations \o o.value
              /\ drawn' = drawn_after(drawn, o.value)
              /\ pc' = pc
  /\ wardrobe_items' = items_after_outfit_combination(wardrobe_items)
  /\ UNCHANGED <<engine, event, weather, user_preferences, count, result>>

\* The loop is over: sort by confidence, return recommendations[:count].
ReturnCall ==
  /\ pc = "loop"
  /\ drawn = count * Oversample
  /\ recommendations' = sort_by_confidence(recommendations)
  /\ result' = Take(recommendations', count)
  /\ pc' = "done"
  /\ UNCHANGED <<engine, wardrobe_items, event, weather, user_preferences, count,
                 drawn>>

Draw == DrawCall /\ UNCHANGED <<pc_usage, analyser_vars, lookup_vars, api_vars>>

Return == ReturnCall /\ UNCHANGED <<pc_usage, analyser_vars, lookup_vars, api_vars>>

Next == Draw \/ Return

Spec == Init /\ [][Next]_vars

\* ------------------------------------ a call that is let run to its end
\* Largest count of a call that is let run to its end.
MaxLoopCount == 2

\* The empty wardrobe; a t-shirt and a dress (a draw gives the dress or is
\* discarded); jeans and a t-shirt (no draw is discarded); all three.
LoopWardrobes ==
  {Subsequence(Catalogue, idx) : idx \in {{}, {2, 7}, {1, 2}, {1, 2, 7}}}

\* Nothing given, and an event alone.
LoopContexts ==
  {Context("", NoWeather, NoPreferences), Context("work", NoWeather, NoPreferences)}

\* A call of generate_recommendations has been entered.
InitLoop ==
  /\ engine = RecommendationEngine
  /\ wardrobe_items \in LoopWardrobes
  /\ \E c \in LoopContexts :
       /\ event = c.event
       /\ weather = c.weather
       /\ user_preferences = c.user_preferences
  /\ count \in 1..MaxLoopCount
  /\ pc = "loop"
  /\ pc_usage = "idle"
  /\ drawn = 0
  /\ recommendations = <<>>
  /\ result = <<>>
  /\ AnalyserIdle
  /\ LookupIdle
  /\ ApiIdle

\* The call is straight-line code around a for loop over a range: a step
\* that can be taken is taken.
SpecLoop == InitLoop /\ [][Next]_vars /\ WF_vars(Next)

\* ------------------------------------------------- analyze_wardrobe_usage
\* A call of analyze_wardrobe_usage has been entered.
InitUsage ==
  /\ engine = RecommendationEngine
  /\ IsItemList(items)
  /\ report = NoReport
  /\ pc = "analyze"
  /\ pc_usage = "idle"
  /\ ComposerIdle
  /\ LookupIdle
  /\ ApiIdle

\* The call on items ends with the outcome o: the caller gets the report it
\* returns, unless an exception leaves it.
AnalyzeCall(o) ==
  /\ IF o.raised
     THEN UNCHANGED <<items, report>>
     ELSE report' = o.value /\ items' = items_after_analyze(items)
  /\ UNCHANGED engine

Analyze ==
  /\ pc = "analyze"
  /\ \E o \in {analyze_wardrobe_usage(items)} :
       AnalyzeCall(o) /\ pc' = (IF o.raised THEN "raised" ELSE "done")
  /\ UNCHANGED <<pc_usage, composer_vars, lookup_vars, api_vars>>

NextUsage == Analyze

SpecUsage == InitUsage /\ [][NextUsage]_vars

\* ----------------------------------------------------------- the lookups
\* A call of _calculate_color_harmony, or the band lookup of
\* _is_weather_appropriate, has been entered.
InitLookup ==
  /\ engine = RecommendationEngine
  /\ pc_usage = "idle"
  /\ ComposerIdle
  /\ AnalyserIdle
  /\ ApiIdle
  /\ harmony = 0 - 1
  /\ band = ""
  /\ \/ /\ pc = "harmony"
        /\ color1 \in Colors
        /\ color2 \in Colors
        /\ temperature = 0
     \/ /\ pc = "band"
        /\ color1 = ""
        /\ color2 = ""
        /\ temperature \in Temperatures

Harmony ==
  /\ pc = "harmony"
  /\ harmony' = calculate_color_harmony(color1, color2)
  /\ pc' = "done"
  /\ UNCHANGED <<engine, pc_usage, color1, color2, temperature, band,
                 composer_vars, analyser_vars, api_vars>>

Band ==
  /\ pc = "band"
  /\ band' = weather_category(temperature)
  /\ pc' = "done"
  /\ UNCHANGED <<engine, pc_usage, color1, color2, temperature, harmony,
                 composer_vars, analyser_vars, api_vars>>

NextLookup == Harmony \/ Band

SpecLookup == InitLookup /\ [][NextLookup]_vars

\* --------------------------------------------- calls with malformed items
\* Jeans and a shirt as they should be, a t-shirt and shoes without a color,
\* and a scarf without a type.
MalformedCatalogue ==
  << Item("item1", "jeans", "blue", <<"casual", "everyday">>, 8, FALSE),
     Item("item2", "t-shirt", None, <<"casual", "basic">>, 12, FALSE),
     Item("item3", "shoes", None, <<"casual", "comfortable">>, 10, FALSE),
     Item("item6", "shirt", "white", <<"formal", "professional">>, 6, TRUE),
     Item("item9", None, "green", <<"trendy">>, 1, FALSE) >>

\* Every list of items of that catalogue.
MalformedWardrobes ==
  {Subsequence(MalformedCatalogue, idx) : idx \in SUBSET (1..Len(MalformedCatalogue))}

\* A call of generate_recommendations, without a context or with the
\* preferences of the endpoint, or a call of analyze_wardrobe_usage, has been
\* entered with such a list.
InitMalformed ==
  /\ engine = RecommendationEngine
  /\ pc_usage = "idle"
  /\ LookupIdle
  /\ ApiIdle
  /\ \/ /\ pc = "loop"
        /\ wardrobe_items \in MalformedWardrobes
        /\ event = ""
        /\ weather = NoWeather
        /\ user_preferences \in {NoPreferences, EndpointPreferences}
        /\ count \in Counts
        /\ drawn = 0
        /\ recommendations = <<>>
        /\ result = <<>>
        /\ AnalyserIdle
     \/ /\ pc = "analyze"
        /\ items \in MalformedWardrobes
        /\ report = NoReport
        /\ ComposerIdle

NextMalformed == Draw \/ Return \/ Analyze

SpecMalformed == InitMalformed /\ [][NextMalformed]_vars

\* ---------------------------------- a call on a wardrobe with every bucket
\* The whole catalogue, and the catalogue with one of its items left out.
WholeWardrobes ==
  {Subsequence(Catalogue, (1..Len(Catalogue)) \ left_out) :
     left_out \in {{}} \cup {{k} : k \in 1..Len(Catalogue)}}

\* A call of generate_recommendations with count 1 has been entered.
InitOutfit ==
  /\ engine = RecommendationEngine
  /\ wardrobe_items \in WholeWardrobes
  /\ \E c \in OutfitContexts :
       /\ event = c.event
       /\ weather = c.weather
       /\ user_preferences = c.user_preferences
  /\ count = 1
  /\ pc = "loop"
  /\ pc_usage = "idle"
  /\ drawn = 0
  /\ recommendations = <<>>
  /\ result = <<>>
  /\ AnalyserIdle
  /\ LookupIdle
  /\ ApiIdle

SpecOutfit == InitOutfit /\ [][Next]_vars

\* --------------------------- two calls on the one engine and the one list
\* Largest number of items in the list the caller hands to both calls.
MaxShared == 2

\* Every list of at most MaxShared catalogue items.
SharedWardrobes ==
  {Subsequence(Catalogue, idx) :
     idx \in {x \in SUBSET (1..Len(Catalogue)) : Cardinality(x) <= MaxShared}}

\* The caller has one list of items and the module's one engine, and has
\* entered generate_recommendations (with count 1) and analyze_wardrobe_usage
\* with them: wardrobe_items and items name the same list object.
InitShared ==
  /\ engine = RecommendationEngine
  /\ wardrobe_items \in SharedWardrobes
  /\ items = wardrobe_items
  /\ \E c \in Contexts :
       /\ event = c.event
       /\ weather = c.weather
       /\ user_preferences = c.user_preferences
  /\ count = 1
  /\ pc = "loop"
  /\ pc_usage = "analyze"
  /\ drawn = 0
  /\ recommendations = <<>>
  /\ result = <<>>
  /\ report = NoReport
  /\ LookupIdle
  /\ ApiIdle

\* An iteration of the loop of generate_recommendations; what it does to its
\* list shows through the other name of the list.
DrawShared ==
  /\ DrawCall
  /\ items' = wardrobe_items'
  /\ UNCHANGED <<pc_usage, report, lookup_vars, api_vars>>

\* The call of analyze_wardrobe_usage, at any point of the other call.
AnalyzeShared ==
  /\ pc_usage = "analyze"
  /\ \E o \in {analyze_wardrobe_usage(items)} :
       AnalyzeCall(o) /\ pc_usage' = (IF o.raised THEN "raised" ELSE "done")
  /\ wardrobe_items' = items'
  /\ UNCHANGED <<pc, event, weather, user_preferences, count, drawn,
                 recommendations, result, lookup_vars, api_vars>>

\* The caller calls analyze_wardrobe_usage a second time with the same list.
AnalyzeAgainShared ==
  /\ pc_usage = "done"
  /\ \E o \in {analyze_wardrobe_usage(items)} :
       AnalyzeCall(o) /\ pc_usage' = (IF o.raised THEN "raised" ELSE "again")
  /\ wardrobe_items' = items'
  /\ UNCHANGED <<pc, event, weather, user_preferences, count, drawn,
                 recommendations, result, lookup_vars, api_vars>>

NextShared == DrawShared \/ Return \/ AnalyzeShared \/ AnalyzeAgainShared

SpecShared == InitShared /\ [][NextShared]_vars

\* ------------------------------------------------- claims on the composer
\* The items of the wardrobe whose type is one of the given types.
OfType(types) ==
  {k \in 1..Len(wardrobe_items) : wardrobe_items[k].type \in types}

\* The recommendation's outfit holds an item of the wardrobe that is flagged
\* is_formal.
HasFormalItem(r) ==
  \E k \in 1..Len(r.items) : \E j \in 1..Len(wardrobe_items) :
    wardrobe_items[j].id = r.items[k] /\ wardrobe_items[j].is_formal

\* C1: generate_recommendations returns at most count recommendations, and
\* their confidence values do not increase from first to last.
C1_AtMostCountSortedDescending ==
  pc = "done" =>
    /\ Len(result) <= count
    /\ \A i \in 1..Len(result) : \A j \in 1..Len(result) :
         i < j => result[i].confidence >= result[j].confidence

\* C1 witness: six candidates were drawn for count 2, and the two returned
\* have different confidence values.
C1_Witness ==
  /\ pc = "done" /\ count = 2
  /\ Len(recommendations) = 6
  /\ Len(result) = 2
  /\ result[1].confidence > result[2].confidence

\* C2: every returned recommendation has confidence and style_score in
\* [0.0, 1.0].
C2_ScoresInUnitInterval ==
  pc = "done" =>
    \A i \in 1..Len(result) :
      /\ 0 <= result[i].confidence /\ result[i].confidence <= One
      /\ 0 <= result[i].style_score /\ result[i].style_score <= One

\* C2 witness: a returned recommendation whose confidence the clamp cut to
\* 1.0 and whose style_score got both bonuses.
C2_Witness ==
  /\ pc = "done"
  /\ \E i \in 1..Len(result) :
       result[i].confidence = One /\ result[i].style_score = Dec(9)

\* C3: with no dress and no top, or no dress and no bottom, the call returns
\* the empty sequence and raises nothing, whatever the count and the context.
C3_NoBaseNoRecommendations ==
  (OfType({"dress"}) = {}
     /\ (OfType({"shirt", "t-shirt", "blouse", "sweater", "tank_top"}) = {}
           \/ OfType({"pants", "jeans", "shorts", "skirt"}) = {}))
  => /\ pc # "raised"
     /\ recommendations = <<>>
     /\ pc = "done" => result = <<>>

\* C3 witness: a wardrobe with a top and shoes, but no bottom and no dress, has
\* gone through all six draws of count 2 and returned.
C3_Witness ==
  /\ pc = "done" /\ count = 2 /\ drawn = 6
  /\ OfType({"dress"}) = {}
  /\ OfType({"shirt", "t-shirt", "blouse", "sweater", "tank_top"}) # {}
  /\ OfType({"shoes"}) # {}
  /\ OfType({"pants", "jeans", "shorts", "skirt"}) = {}
  /\ result = <<>>

\* C7: for the event work or formal, in any letter case, every returned
\* recommendation that holds an is_formal item has event_match = true; so when
\* every top and every bottom is is_formal and there is no dress, every
\* returned recommendation has it (item ids are unique, as the data model says).
C7_FormalItemMatchesWorkOrFormal ==
  (pc = "done" /\ event \in {"work", "FORMAL"}) =>
    /\ \A i \in 1..Len(result) : HasFormalItem(result[i]) => result[i].event_match
    /\ (/\ OfType({"dress"}) = {}
        /\ \A k \in OfType({"shirt", "t-shirt", "blouse", "sweater", "tank_top",
                            "pants", "jeans", "shorts", "skirt"}) :
             wardrobe_items[k].is_formal)
       => \A i \in 1..Len(result) : result[i].event_match

\* C7 witness: for the event work a recommendation is returned whose only item
\* is the dress, which is_formal and has no tag at all.
C7_Witness ==
  /\ pc = "done" /\ event = "work"
  /\ \E i \in 1..Len(result) :
       result[i].items = <<"item8">> /\ result[i].event_match

\* The items of the wardrobe that the ids of the recommendation's outfit name.
OutfitOf(r) ==
  {wardrobe_items[j] : j \in {j \in 1..Len(wardrobe_items) :
                                \E k \in 1..Len(r.items) : wardrobe_items[j].id = r.items[k]}}

\* The tags of an item, as a set.
TagsOf(it) == {it.tags[k] : k \in 1..Len(it.tags)}

\* The entries of a list, as a set.
Elements(s) == {s[k] : k \in 1..Len(s)}

\* C14: no returned recommendation, and no candidate, holds an item whose type
\* is in none of the six type lists.
C14_UnlistedTypeNeverChosen ==
  \A k \in 1..Len(recommendations) : \A it \in OutfitOf(recommendations[k]) :
    it.type \in {"shirt", "t-shirt", "blouse", "sweater", "tank_top",
                 "pants", "jeans", "shorts", "skirt", "shoes",
                 "jacket", "coat", "blazer", "cardigan", "dress",
                 "accessories", "scarf", "bag", "belt"}

\* C14 witness: a wardrobe with a hat has gone through the call, and
\* recommendations were returned.
C14_Witness ==
  /\ pc = "done"
  /\ \E j \in 1..Len(wardrobe_items) : wardrobe_items[j].type = "hat"
  /\ result # <<>>

\* C16: event_match is true when there is no event or the event, lower-cased,
\* is no key of the event table; for a key of the table, if no is_formal item
\* of the outfit meets the event work or formal, event_match is true iff some
\* item of the outfit has a tag that is in the style list of the event.
C16_EventMatch ==
  pc = "done" =>
    \A i \in 1..Len(result) :
      LET r == result[i]
          e == lower(event)
          known == e \in {"work", "casual", "formal", "party", "outdoor", "date",
                          "workout"}
          shortcut == e \in {"work", "formal"} /\ \E it \in OutfitOf(r) : it.is_formal
          tagged == \E it \in OutfitOf(r) : TagsOf(it) \cap Elements(event_styles[e]) # {}
      IN  /\ (event = "" \/ ~known) => r.event_match
          /\ (event # "" /\ known /\ ~shortcut) => (r.event_match <=> tagged)

\* C16 witness: for the event casual a recommendation is returned that does not
\* match, though one of its items has the tag "Casual".
C16_Witness ==
  /\ pc = "done" /\ event = "casual"
  /\ \E i \in 1..Len(result) :
       /\ ~result[i].event_match
       /\ \E it \in OutfitOf(result[i]) : "Casual" \in TagsOf(it)

\* C17: weather_appropriate is true when no weather is given; otherwise it is
\* true iff a type or a tag of an item of the outfit is a keyword of the band
\* of the temperature (hot above 25, warm above 15, cool above 5, else cold).
C17_WeatherAppropriate ==
  pc = "done" =>
    \A i \in 1..Len(result) :
      LET r == result[i]
          t == weather.temperature
          b == IF t > 250 THEN "hot" ELSE IF t > 150 THEN "warm"
               ELSE IF t > 50 THEN "cool" ELSE "cold"
          worn == UNION {{it.type} \cup TagsOf(it) : it \in OutfitOf(r)}
      IN  IF ~weather.given THEN r.weather_appropriate
          ELSE r.weather_appropriate <=> (worn \cap Elements(weather_mapping[b]) # {})

\* C17 witness: at 5 degrees a returned outfit is appropriate by the tag
\* "layering" of its jacket alone: no type of its items is a keyword of cold.
C17_Witness ==
  /\ pc = "done" /\ weather.given /\ weather.temperature = 50
  /\ \E i \in 1..Len(result) :
       /\ result[i].weather_appropriate
       /\ \E it \in OutfitOf(result[i]) : "layering" \in TagsOf(it)
       /\ \A it \in OutfitOf(result[i]) : it.type \notin Elements(weather_mapping["cold"])

\* C18: style_score is 0.5 without preferences; with them it is 0.5, plus 0.2
\* iff the color of an item of the outfit is a favorite color ignoring case,
\* plus 0.2 iff a tag of an item of the outfit is a preferred style ignoring
\* case, and at most 1.0.
C18_StyleScore ==
  pc = "done" =>
    \A i \in 1..Len(result) :
      LET r == result[i]
          favorite == {lower(c) : c \in Elements(user_preferences.favorite_colors)}
          preferred == {lower(p) : p \in Elements(user_preferences.preferred_styles)}
          color_hit == \E it \in OutfitOf(r) : lower(it.color) \in favorite
          style_hit == \E it \in OutfitOf(r) :
                         {lower(t) : t \in TagsOf(it)} \cap preferred # {}
          sum == 5 + (IF color_hit THEN 2 ELSE 0) + (IF style_hit THEN 2 ELSE 0)
      IN  IF ~user_preferences.given THEN r.style_score = Dec(5)
          ELSE r.style_score = Dec(IF sum > 10 THEN 10 ELSE sum)

\* C18 witness: with the favorite color RED and the preferred style CASUAL, a
\* returned outfit with the dress of color "Red" scores 0.9.
C18_Witness ==
  /\ pc = "done"
  /\ user_preferences.given /\ user_preferences.favorite_colors = <<"RED">>
  /\ \E i \in 1..Len(result) :
       /\ result[i].style_score = Dec(9)
       /\ \E it \in OutfitOf(result[i]) : it.color = "Red"

\* The item of the wardrobe with the given id.
ItemById(id) ==
  wardrobe_items[CHOOSE j \in 1..Len(wardrobe_items) : wardrobe_items[j].id = id]

\* C19: confidence is the mean of the factors of the pieces of the outfit (0.8
\* for a dress, or the harmony score of the colors of top and bottom; 0.7 for
\* shoes, 0.8 for outerwear, 0.6 for an accessory), plus 0.2 if
\* weather_appropriate else minus 0.3, plus 0.2 if event_match else minus 0.1,
\* plus 0.1 times style_score, cut to [0, 1]. Both sides are taken times 10
\* times the number of pieces, so that nothing is divided.
C19_Confidence ==
  pc = "done" =>
    \A i \in 1..Len(result) :
      LET r == result[i]
          n == Len(r.items)
          T(k) == ItemById(r.items[k]).type
          dressed == T(1) = "dress"
          base == IF dressed THEN 1 ELSE 2
          first == IF dressed THEN Dec(8)
                   ELSE calculate_color_harmony(ItemById(r.items[1]).color,
                                                ItemById(r.items[2]).color)
          factor(k) == IF T(k) = "shoes" THEN Dec(7)
                       ELSE IF T(k) \in {"jacket", "coat", "blazer", "cardigan"} THEN Dec(8)
                       ELSE Dec(6)
          pieces == 1 + n - base
          total == first + Sum([k \in 1..(n - base) |-> factor(base + k)])
          weather_bonus == IF r.weather_appropriate THEN Dec(2) ELSE 0 - Dec(3)
          event_bonus == IF r.event_match THEN Dec(2) ELSE 0 - Dec(1)
          raw == 10 * total
                 + pieces * (10 * weather_bonus + 10 * event_bonus + r.style_score)
      IN  10 * pieces * r.confidence = Min(10 * pieces * One, Max(0, raw))

\* C19 witness: a returned outfit of five items, four factors in its mean, that
\* does not match the event, with a confidence the cut to [0, 1] left alone.
C19_Witness ==
  /\ pc = "done"
  /\ \E i \in 1..Len(result) :
       /\ Len(result[i].items) = 5
       /\ ~result[i].event_match
       /\ 0 < result[i].confidence /\ result[i].confidence < One

\* C20: the items of a returned recommendation are one dress, or one top and
\* then one bottom; then one pair of shoes iff the wardrobe has shoes; then at
\* most one outerwear item; then at most one accessory; nothing else, so from 1
\* to 5 items, and no top or bottom next to a dress.
C20_OutfitShape ==
  pc = "done" =>
    \A i \in 1..Len(result) :
      LET its == result[i].items
          n == Len(its)
          T(k) == ItemById(its[k]).type
          dressed == T(1) \in DressTypes
          base == IF dressed THEN 1 ELSE 2
          rank(k) == IF T(k) \in ShoeTypes THEN 1
                     ELSE IF T(k) \in OuterwearTypes THEN 2
                     ELSE IF T(k) \in AccessoryTypes THEN 3
                     ELSE 0
      IN  /\ 1 <= n /\ n <= 5
          /\ \A k \in 1..n : \E j \in 1..Len(wardrobe_items) : wardrobe_items[j].id = its[k]
          /\ dressed \/ (n >= 2 /\ T(1) \in TopTypes /\ T(2) \in BottomTypes)
          /\ \A k \in (base + 1)..n : rank(k) > 0
          /\ \A k \in (base + 1)..n : \A l \in (base + 1)..n : k < l => rank(k) < rank(l)
          /\ (OfType(ShoeTypes) # {}) <=> (n > base /\ rank(base + 1) = 1)

\* C20 witness: a returned outfit of five items: top, bottom, shoes, outerwear
\* and accessory; and the wardrobe has a dress.
C20_Witness ==
  /\ pc = "done"
  /\ OfType(DressTypes) # {}
  /\ \E i \in 1..Len(result) : Len(result[i].items) = 5

\* ------------------------------------------------- claims on the analyser
\* The positions of the items whose usage_count is strictly below half of the
\* mean usage_count of the list.
BelowHalfMean ==
  {i \in 1..Len(items) :
     2 * Len(items) * items[i].usage_count
       < Sum([j \in 1..Len(items) |-> items[j].usage_count])}

\* The positions of the items with the given usage_count.
WithUsage(u) == {i \in 1..Len(items) : items[i].usage_count = u}

\* The entry is the report entry of the item at the position its id names (an
\* item's id is its position in the list).
EntryOfItem(entry) ==
  /\ entry.id \in 1..Len(items)
  /\ entry.usage_count = items[entry.id].usage_count

\* C4: on the empty list the analyser raises nothing and returns the report
\* with total_items 0, average_usage 0 and every list and distribution empty.
C4_EmptyListEmptyReport ==
  items = <<>> =>
    /\ pc # "raised"
    /\ pc = "done" =>
         /\ report.total_items = 0
         /\ report.average_usage = 0
         /\ report.rarely_worn = <<>>
         /\ report.most_worn = <<>>
         /\ DOMAIN report.color_distribution = {}
         /\ DOMAIN report.type_distribution = {}
         /\ report.suggestions = <<>>

\* C4 witness: the analyser has returned from a call on the empty list.
C4_Witness == pc = "done" /\ items = <<>> /\ report.total_items = 0

C9_MostWornTopFiveStable ==
  (pc = "done" /\ items # <<>>) =>
    LET mw == report.most_worn
        listed == {mw[k].id : k \in 1..Len(mw)}
    IN  /\ Len(mw) = Min(5, Len(items))
        /\ \A k \in 1..Len(mw) : EntryOfItem(mw[k])
        /\ Cardinality(listed) = Len(mw)
        /\ \A k \in 1..Len(mw) : \A l \in 1..Len(mw) :
             k < l => \/ mw[k].usage_count > mw[l].usage_count
                      \/ /\ mw[k].usage_count = mw[l].usage_count
                         /\ mw[k].id < mw[l].id
        /\ \A i \in (1..Len(items)) \ listed : \A k \in 1..Len(mw) :
             items[i].usage_count <= mw[k].usage_count

\* C9 witness: six items, two listed ones with equal usage_count, and the one
\* left out ties with the last listed one.
C9_Witness ==
  /\ pc = "done" /\ Len(items) = 6
  /\ LET mw == report.most_worn
     IN  /\ Len(mw) = 5
         /\ mw[1].usage_count > mw[2].usage_count
         /\ mw[2].usage_count = mw[3].usage_count
         /\ \E i \in 1..6 :
              /\ i \notin {mw[k].id : k \in 1..5}
              /\ items[i].usage_count = mw[5].usage_count

\* C10, as claimed: the report's average_usage is the sum of the usage counts
\* divided by the number of items (average_usage is in tenths).
C10_AverageIsExactQuotient ==
  (pc = "done" /\ items # <<>>) =>
    report.average_usage * Len(items)
      = 10 * Sum([j \in 1..Len(items) |-> items[j].usage_count])

\* C10, amended: the report's average_usage is that quotient rounded to one
\* decimal place: a multiple of 0.1 at most 0.05 away from it.
C10_AverageIsRoundedQuotient ==
  (pc = "done" /\ items # <<>>) =>
    LET n == Len(items)
        total == Sum([j \in 1..Len(items) |-> items[j].usage_count])
        d == 10 * total - report.average_usage * n
    IN  2 * d <= n /\ 2 * (0 - d) <= n

\* C10 witness: a report whose average_usage is not the exact quotient, which
\* has more than one decimal.
C10_Witness ==
  /\ pc = "done" /\ items # <<>>
  /\ (10 * Sum([j \in 1..Len(items) |-> items[j].usage_count])) % Len(items) # 0
  /\ report.average_usage > 0

\* The fixed order of the suggestion strings.
SuggestionOrder ==
  << "Consider donating or repurposing items you rarely wear",
     "Try adding more colorful items to diversify your wardrobe",
     "You have many jeans - consider other bottom types for variety" >>

\* C11: the suggestions of a report are strings of SuggestionOrder, each at
\* most once and in that order; the second one is there iff more than 0.4 of
\* the items are black ignoring case, the third iff more than 5 items are jeans.
C11_SuggestionsInOrder ==
  pc = "done" =>
    LET sg == report.suggestions
        at(k) == CHOOSE p \in 1..3 : SuggestionOrder[p] = sg[k]
        black == {i \in 1..Len(items) : lower(items[i].color) = "black"}
        jeans == {i \in 1..Len(items) : items[i].type = "jeans"}
    IN  /\ \A k \in 1..Len(sg) : \E p \in 1..3 : SuggestionOrder[p] = sg[k]
        /\ \A k \in 1..Len(sg) : \A l \in 1..Len(sg) : k < l => at(k) < at(l)
        /\ InList(SuggestionOrder[2], sg)
             <=> 10 * Cardinality(black) > 4 * Len(items)
        /\ InList(SuggestionOrder[3], sg) <=> Cardinality(jeans) > 5

\* C11 witness: a report with all three suggestions, in the fixed order, for a
\* list with more than five jeans.
C11_Witness ==
  /\ pc = "done"
  /\ report.suggestions = SuggestionOrder
  /\ Cardinality({i \in 1..Len(items) : items[i].type = "jeans"}) > 5

\* -------------------------------------------------- claims on the lookups
\* The colours of a harmony group, as a set.
GroupColors(g) == {color_harmony[g][k] : k \in 1..Len(color_harmony[g])}

\* C5: the harmony score is 0.9 for colours equal ignoring case, else 0.8 when
\* one group holds both, else 0.7 when one of them is neutral, else 0.5; so
\* black/black is 0.9, red/blue 0.5 and black/red 0.7.
C5_HarmonyFirstRuleDecides ==
  (pc = "done" /\ band = "") =>
    LET a == lower(color1)
        b == lower(color2)
        together == \E g \in {"neutral", "warm", "cool", "earth"} :
                      a \in GroupColors(g) /\ b \in GroupColors(g)
        neutral == a \in GroupColors("neutral") \/ b \in GroupColors("neutral")
    IN  /\ a = b => harmony = Dec(9)
        /\ (a # b /\ together) => harmony = Dec(8)
        /\ (a # b /\ ~together /\ neutral) => harmony = Dec(7)
        /\ (a # b /\ ~together /\ ~neutral) => harmony = Dec(5)
        /\ (color1 = "black" /\ color2 = "black") => harmony = Dec(9)
        /\ (color1 = "red" /\ color2 = "blue") => harmony = Dec(5)
        /\ (color1 = "black" /\ color2 = "red") => harmony = Dec(7)

\* C5 witness: the harmony of black and white, both neutral, has been looked
\* up: the group rule decided it before the neutral rule.
C5_Witness ==
  pc = "done" /\ color1 = "black" /\ color2 = "White" /\ harmony = Dec(8)

\* C6: a temperature is in the band hot iff it is above 25, warm iff above 15
\* and at most 25, cool iff above 5 and at most 15, cold iff at most 5; so 25
\* is warm, 15 is cool and 5 is cold (temperatures are in tenths of a degree).
C6_BandBoundaries ==
  (pc = "done" /\ band # "") =>
    /\ band = "hot" <=> temperature > 250
    /\ band = "warm" <=> (temperature > 150 /\ temperature <= 250)
    /\ band = "cool" <=> (temperature > 50 /\ temperature <= 150)
    /\ band = "cold" <=> temperature <= 50
    /\ temperature = 250 => band = "warm"
    /\ temperature = 150 => band = "cool"
    /\ temperature = 50 => band = "cold"

\* C6 witness: the band of exactly 25 degrees has been looked up and is warm.
C6_Witness == pc = "done" /\ temperature = 250 /\ band = "warm"

C15_MalformedItemsNeverRaise ==
  /\ pc # "raised"
  /\ \A k \in 1..Len(recommendations) : \A it \in OutfitOf(recommendations[k]) :
       it.type # None

\* ---------------------------------------------- claims on the outerwear
\* The returned recommendation r has an item of the outerwear bucket.
HasOuterwear(r) ==
  \E k \in 1..Len(r.items) : \E i \in 1..Len(wardrobe_items) :
    /\ wardrobe_items[i].id = r.items[k]
    /\ wardrobe_items[i].type \in OuterwearTypes

\* C21: a returned recommendation contains an outerwear item iff a weather
\* context is given, its temperature is below 15 or its condition is rainy,
\* snowy or windy, and the wardrobe has an outerwear item; so with no weather
\* context, or at 15 degrees with another condition, no returned outfit
\* contains outerwear.
C21_OuterwearIffNeeded ==
  pc = "done" =>
    \A k \in 1..Len(result) :
      HasOuterwear(result[k]) <=>
        /\ weather.given
        /\ \/ weather.temperature < 150
           \/ weather.condition \in {"rainy", "snowy", "windy"}
        /\ \E i \in 1..Len(wardrobe_items) :
             wardrobe_items[i].type \in {"jacket", "coat", "blazer", "cardigan"}

\* C21 witness: a returned outfit has outerwear on a windy day of 20 degrees.
C21_Witness ==
  /\ pc = "done" /\ result # <<>> /\ HasOuterwear(result[1])
  /\ weather.given /\ weather.temperature = 200 /\ weather.condition = "windy"

\* ------------------------------------------- claims on the loop of a call
\* C22: a call with count N makes exactly 3 x N candidate draws, each ending
\* with one recommendation more or with a discard, and then returns: every
\* step inside the loop is one more draw, the call has returned only after
\* 3 x N draws, and it does return.
C22_ThreeTimesCountDrawsThenReturn ==
  /\ [][ pc = "loop" /\ pc' = "loop" =>
           /\ drawn' = drawn + 1
           /\ \/ recommendations' = recommendations
              \/ /\ Len(recommendations') = Len(recommendations) + 1
                 /\ SubSeq(recommendations', 1, Len(recommendations)) = recommendations ]_vars
  /\ [](pc = "done" => drawn = 3 * count /\ Len(result) <= count)
  /\ [](drawn <= 3 * count)
  /\ <>(pc = "done")

\* C22 witness: a call with count 2 has returned after six draws, some of
\* them discarded and some not.
C22_Witness ==
  /\ pc = "done" /\ count = 2 /\ drawn = 6
  /\ Len(recommendations) > 0 /\ Len(recommendations) < 6

DonateSuggested == InList(SuggestionOrder[1], report.suggestions)

\* C24 as stated: the donate suggestion is in a report iff the rarely_worn
\* list of that report has more than 0.3 x total_items entries.
C24_DonateIffListedRarelyWorn ==
  pc = "done" =>
    (DonateSuggested <=> 10 * Len(report.rarely_worn) > 3 * report.total_items)

\* C24, amended: the donate suggestion is in a report iff more than
\* 0.3 x total_items of the items have a usage_count below half the mean,
\* whether the report lists them or not (it lists the first ten).
C24_DonateIffRarelyWornItems ==
  pc = "done" =>
    (DonateSuggested <=> 10 * Cardinality(BelowHalfMean) > 3 * Len(items))

\* C24 witness: the suggestion is in a report whose rarely_worn list is cut
\* to ten entries, which are not more than three tenths of the items.
C24_Witness ==
  /\ pc = "done" /\ DonateSuggested
  /\ Len(report.rarely_worn) = 10
  /\ 10 * Len(report.rarely_worn) <= 3 * report.total_items

\* ------------------------------------------ claims on discarded draws
\* The wardrobe has a top and a bottom.
HasTopAndBottom ==
  /\ \E i \in 1..Len(wardrobe_items) :
       wardrobe_items[i].type \in {"shirt", "t-shirt", "blouse", "sweater", "tank_top"}
  /\ \E i \in 1..Len(wardrobe_items) :
       wardrobe_items[i].type \in {"pants", "jeans", "shorts", "skirt"}

\* C29: for a wardrobe with at least one top and at least one bottom, no
\* draw is discarded (every draw so far left a candidate) and the call
\* returns exactly count recommendations.
C29_TopAndBottomNeverDiscarded ==
  HasTopAndBottom =>
    /\ pc # "raised"
    /\ Len(recommendations) = drawn
    /\ pc = "done" => Len(result) = count /\ drawn = 3 * count

\* C29 witness: a call with count 2 on a wardrobe with a top, a bottom and a
\* dress has returned two recommendations out of six candidates.
C29_Witness ==
  /\ pc = "done" /\ HasTopAndBottom /\ count = 2
  /\ \E i \in 1..Len(wardrobe_items) : wardrobe_items[i].type = "dress"
  /\ Len(result) = 2 /\ Len(recommendations) = 6

\* ------------------------------------------------ claims on outfit ids
\* The ids of the wardrobe are pairwise distinct.
DistinctIds ==
  \A i \in 1..Len(wardrobe_items) : \A j \in 1..Len(wardrobe_items) :
    wardrobe_items[i].id = wardrobe_items[j].id => i = j

\* C30: for a wardrobe with pairwise distinct ids, every id of a candidate
\* is the id of an item of the wardrobe and no id is twice in one candidate.
C30_OutfitIdsFromWardrobeOnce ==
  DistinctIds =>
    \A n \in 1..Len(recommendations) :
      LET ids == recommendations[n].items
      IN  /\ \A k \in 1..Len(ids) :
               \E i \in 1..Len(wardrobe_items) : wardrobe_items[i].id = ids[k]
          /\ \A k \in 1..Len(ids) : \A l \in 1..Len(ids) : ids[k] = ids[l] => k = l

\* C30 witness: a returned outfit of five items (top, bottom, shoes,
\* outerwear, accessory) from a wardrobe with distinct ids.
C30_Witness ==
  /\ pc = "done" /\ DistinctIds
  /\ \E n \in 1..Len(result) : Len(result[n].items) = 5

\* ------------------------------ the smart recommendations endpoint
\* weather_temp when the query parameter is absent (None).
NoTemp == 0 - 10000

\* The mock wardrobe of get_smart_outfit_recommendations.
mock_wardrobe ==
  << Item("item1", "jeans", "blue", <<"casual", "everyday">>, 8, FALSE),
     Item("item2", "t-shirt", "white", <<"casual", "basic">>, 12, FALSE),
     Item("item3", "shoes", "black", <<"casual", "comfortable">>, 10, FALSE),
     Item("item4", "jacket", "blue", <<"casual", "layering">>, 5, FALSE),
     Item("item5", "blazer", "black", <<"formal", "professional">>, 3, TRUE),
     Item("item6", "shirt", "white", <<"formal", "professional">>, 6, TRUE),
     Item("item7", "pants", "black", <<"formal", "professional">>, 4, TRUE) >>

\* Lines 221-227 of get_smart_outfit_recommendations: no weather unless a
\* temperature is given or the condition is truthy; `weather_temp or 20`
\* (20 for None and for 0) and `weather_condition or "sunny"`. An absent
\* condition and the empty one are both "".
prepare_weather(temp, condition) ==
  IF temp # NoTemp \/ condition # ""
  THEN Weather(IF temp = NoTemp \/ temp = 0 THEN Deg(20) ELSE temp,
               IF condition = "" THEN "sunny" ELSE condition)
  ELSE NoWeather

\* The temperatures of the requests: none, and some in tenths of a degree.
EndpointTemps == {NoTemp, 0 - Deg(5), 0, 1, Deg(10), Deg(20), Deg(30)}
EndpointConditions == {"", "sunny", "rainy"}

\* A request to the endpoint has arrived, with limit = 1.
InitEndpoint ==
  /\ engine = RecommendationEngine
  /\ pc = "prepare"
  /\ pc_usage = "idle"
  /\ weather_temp \in EndpointTemps
  /\ weather_condition \in EndpointConditions
  /\ ComposerIdle
  /\ AnalyserIdle
  /\ LookupIdle
  /\ clothing_items = <<>> /\ upload_dir = {} /\ requests = <<>> /\ workers = 1

\* The endpoint prepares the weather and calls generate_recommendations on
\* the mock wardrobe, with its fixed preferences and count = limit.
PrepareWeather ==
  /\ pc = "prepare"
  /\ weather' = prepare_weather(weather_temp, weather_condition)
  /\ wardrobe_items' = mock_wardrobe
  /\ user_preferences' = EndpointPreferences
  /\ pc' = "loop"
  /\ UNCHANGED <<engine, pc_usage, event, count, drawn, recommendations, result,
                 analyser_vars, lookup_vars, api_vars>>

NextEndpoint == PrepareWeather \/ Draw \/ Return

SpecEndpoint == InitEndpoint /\ [][NextEndpoint]_vars

\* -------------------------- claims on the recommendations endpoint
\* C28: when the endpoint is called with a weather_temp, the weather handed
\* to generate_recommendations has exactly that temperature, 0 included; it
\* has 20 only when weather_temp is absent (and a condition is given).
C28_WeatherCarriesGivenTemperature ==
  pc # "prepare" =>
    /\ weather_temp # NoTemp =>
         weather.given /\ weather.temperature = weather_temp
    /\ weather_temp = NoTemp /\ weather.given => weather.temperature = 200

\* ----------------------------------------------- the wardrobe endpoints
\* Most requests that are made to the item endpoints.
MaxRequests == 2

\* usage_count when the column is NULL.
NullCount == 0 - 1

\* A file of UPLOAD_DIR: the uploaded one of an item, the processed image
\* made from it, or its thumbnail.
File(kind, id) == [kind |-> kind, id |-> id]
NoFile == File("none", "")

\* A row of clothing_items (the columns the handlers read or write besides
\* the descriptive ones, of which name stands for all), and no row.
Row(user_id, name, usage_count, image_url) ==
  [present |-> TRUE, user_id |-> user_id, name |-> name,
   usage_count |-> usage_count, image_url |-> image_url]
NoRow ==
  [present |-> FALSE, user_id |-> "", name |-> "", usage_count |-> NullCount,
   image_url |-> NoFile]

\* The authenticated users and the item ids of requests; no row has id "c".
Users == {"u1", "u2"}
ItemIds == {"a", "b", "c"}

\* The table before the requests: item a of u1 has never been worn (its
\* usage_count is unset), item b of u2 has been worn three times.
StoredItems ==
  [id \in ItemIds |->
     IF id = "a" THEN Row("u1", "coat", NullCount, File("original", "a"))
     ELSE IF id = "b" THEN Row("u2", "scarf", 3, File("original", "b"))
     ELSE NoRow]

\* db.query(ClothingItem).filter(ClothingItem.id == item_id).first(): the
\* filter on the owner is left out.
query_first_any_owner(table, item_id, user_id) == table[item_id]

\* db.query(ClothingItem).filter(ClothingItem.id == item_id,
\* ClothingItem.user_id == current_user_id).first(); NoRow for None.
query_first(table, item_id, user_id) ==
  IF table[item_id].present /\ table[item_id].user_id = user_id
  THEN table[item_id] ELSE NoRow

\* (item.usage_count or 0) + 1, item being the object the session loaded.
worn_usage_count(item) == (IF item.usage_count = NullCount THEN 0 ELSE item.usage_count) + 1

\* A request: the handler (get, update, delete, worn), the authenticated
\* user, the item id of the path; pc is where its handler is, item the object
\* its session loaded, status and body the response (status 0: none yet).
Request(op, user_id, item_id) ==
  [op |-> op, user_id |-> user_id, item_id |-> item_id, pc |-> "query",
   item |-> NoRow, status |-> 0, body |-> NoRow]
Requests ==
  {Request(op, u, id) : op \in {"get", "update", "delete", "worn"},
                        u \in Users, id \in ItemIds}

\* The requests have arrived; one server process serves them, or two do.
InitWardrobe ==
  /\ engine = RecommendationEngine
  /\ pc = "serve"
  /\ pc_usage = "idle"
  /\ clothing_items = StoredItems
  /\ upload_dir = {File("original", "a"), File("original", "b")}
  /\ requests \in [1..MaxRequests -> Requests]
  /\ workers \in {1, 2}
  /\ weather_temp = 0 /\ weather_condition = ""
  /\ ComposerIdle
  /\ AnalyserIdle
  /\ LookupIdle

\* A handler is a coroutine that never awaits: in one server process it runs
\* from its query to its response before another handler runs. Handlers of
\* two processes interleave at their database statements.
MayRun(rq) ==
  \/ workers > 1
  \/ \A other \in DOMAIN requests : other # rq => requests[other].pc # "loaded"

\* What a step of the handlers leaves alone.
HandlerFrame ==
  UNCHANGED <<engine, pc, pc_usage, workers, composer_vars, analyser_vars,
              lookup_vars, endpoint_vars>>

\* The query of a handler and `if not item: raise HTTPException(404)`;
\* get_clothing_item returns the item, the other handlers go on with it.
QueryItem(rq) ==
  /\ requests[rq].pc = "query"
  /\ MayRun(rq)
  /\ LET r == requests[rq]
         item == query_first(clothing_items, r.item_id, r.user_id)
     IN  requests' = [requests EXCEPT ![rq] =
           IF ~item.present THEN [r EXCEPT !.pc = "done", !.status = 404]
           ELSE IF r.op = "get"
                THEN [r EXCEPT !.pc = "done", !.status = 200, !.body = item]
                ELSE [r EXCEPT !.pc = "loaded", !.item = item]]
  /\ UNCHANGED <<clothing_items, upload_dir>>
  /\ HandlerFrame

\* update_clothing_item from the setattr loop on: the UPDATE of db.commit()
\* writes the changed columns of the row with the item's id (no such row any
\* more: the commit raises), db.refresh reads the row back.
UpdateItem(rq) ==
  /\ requests[rq].pc = "loaded" /\ requests[rq].op = "update"
  /\ MayRun(rq)
  /\ LET r == requests[rq]
         row == [clothing_items[r.item_id] EXCEPT !.name = "renamed"]
     IN  IF clothing_items[r.item_id].present
         THEN /\ clothing_items' = [clothing_items EXCEPT ![r.item_id] = row]
              /\ requests' = [requests EXCEPT ![rq] =
                    [r EXCEPT !.pc = "done", !.status = 200, !.body = row]]
         ELSE /\ clothing_items' = clothing_items
              /\ requests' = [requests EXCEPT ![rq] =
                    [r EXCEPT !.pc = "done", !.status = 500]]
  /\ UNCHANGED upload_dir
  /\ HandlerFrame

\* mark_item_worn from the increment on: usage_count is set from the loaded
\* object and db.commit() writes that value to the row.
MarkItemWorn(rq) ==
  /\ requests[rq].pc = "loaded" /\ requests[rq].op = "worn"
  /\ MayRun(rq)
  /\ LET r == requests[rq]
         row == [clothing_items[r.item_id] EXCEPT
                   !.usage_count = worn_usage_count(r.item)]
     IN  IF clothing_items[r.item_id].present
         THEN /\ clothing_items' = [clothing_items EXCEPT ![r.item_id] = row]
              /\ requests' = [requests EXCEPT ![rq] =
                    [r EXCEPT !.pc = "done", !.status = 200, !.body = row]]
         ELSE /\ clothing_items' = clothing_items
              /\ requests' = [requests EXCEPT ![rq] =
                    [r EXCEPT !.pc = "done", !.status = 500]]
  /\ UNCHANGED upload_dir
  /\ HandlerFrame

\* delete_clothing_item from the unlink on: the image file goes if it is
\* there, then the row.
DeleteItem(rq) ==
  /\ requests[rq].pc = "loaded" /\ requests[rq].op = "delete"
  /\ MayRun(rq)
  /\ LET r == requests[rq]
     IN  /\ upload_dir' = upload_dir \ {r.item.image_url}
         /\ clothing_items' = [clothing_items EXCEPT ![r.item_id] = NoRow]
         /\ requests' = [requests EXCEPT ![rq] = [r EXCEPT !.pc = "done", !.status = 200]]
  /\ HandlerFrame

NextWardrobe ==
  \E rq \in 1..MaxRequests :
    QueryItem(rq) \/ UpdateItem(rq) \/ MarkItemWorn(rq) \/ DeleteItem(rq)

SpecWardrobe == InitWardrobe /\ [][NextWardrobe]_vars

\* ------------------------------------- claims on the wardrobe endpoints
\* usage_count with 0 for an unset one.
CountOf(row) == IF row.usage_count = NullCount THEN 0 ELSE row.usage_count

\* The requests to mark the item worn that were answered with success.
WornSucceeded(id) ==
  {rq \in DOMAIN requests :
     requests[rq].op = "worn" /\ requests[rq].item_id = id /\ requests[rq].status = 200}

\* C25: each successful mark_item_worn request adds exactly one to the stored
\* usage_count of its item: an item that no update or delete request names
\* has its initial usage_count (0 if unset) plus the number of successful
\* mark_item_worn requests for it, however the requests interleave.
C25_EachWornCountsOnce ==
  \A id \in ItemIds :
    /\ clothing_items[id].present
    /\ \A rq \in DOMAIN requests :
         requests[rq].item_id = id => requests[rq].op \in {"get", "worn"}
    => CountOf(clothing_items[id]) = CountOf(StoredItems[id]) + Cardinality(WornSucceeded(id))

\* The item a request names is not there or is another user's.
NotOwn(r) ==
  \/ ~clothing_items[r.item_id].present
  \/ clothing_items[r.item_id].user_id # r.user_id

\* C26: get, update, delete and mark-worn on an item id that has no row or
\* whose row is another user's end with 404 at the query and change no row
\* and no file; no step of a request changes or removes the row or the file
\* of another user's item, and no response carries another user's item.
C26_ItemsIsolatedPerOwner ==
  /\ [][ \A rq \in DOMAIN requests :
           requests'[rq] # requests[rq] =>
             /\ NotOwn(requests[rq]) =>
                  /\ clothing_items' = clothing_items
                  /\ upload_dir' = upload_dir
                  /\ requests[rq].pc = "query" => requests'[rq].status = 404
             /\ \A id \in ItemIds :
                  clothing_items[id].present
                    /\ clothing_items[id].user_id # requests[rq].user_id
                  => /\ clothing_items'[id] = clothing_items[id]
                     /\ clothing_items[id].image_url \in upload_dir
                          => clothing_items[id].image_url \in upload_dir' ]_vars
  /\ [](\A rq \in DOMAIN requests :
          requests[rq].body.present => requests[rq].body.user_id = requests[rq].user_id)

\* C26 witness: u2 asked to delete item a of u1 and got 404, u1 marked it
\* worn, and the row and its file are there.
C26_Witness ==
  /\ pc = "serve"
  /\ \E rq \in DOMAIN requests :
       /\ requests[rq].user_id = "u2" /\ requests[rq].item_id = "a"
       /\ requests[rq].op = "delete" /\ requests[rq].status = 404
  /\ \E rq \in DOMAIN requests :
       /\ requests[rq].user_id = "u1" /\ requests[rq].item_id = "a"
       /\ requests[rq].op = "worn" /\ requests[rq].status = 200
  /\ clothing_items["a"].present /\ clothing_items["a"].usage_count = 1
  /\ File("original", "a") \in upload_dir

\* --------------------------------------------------- upload_clothing_item
\* file.content_type, as the part before the slash and the part after it.
ContentType(major, minor) == [major |-> major, minor |-> minor]
ContentTypes ==
  {ContentType("image", "png"), ContentType("image", "jpeg"), ContentType("text", "plain")}

\* file.content_type.startswith("image/")
is_image(content_type) == content_type.major = "image"

\* str(uuid.uuid4()): an id that no row has.
NewItemId == "c"

\* The files an upload makes: filename, processed_{filename}, thumb_{filename}.
UploadKinds == {"original", "processed", "thumb"}

\* The ClothingItem the handler builds.
uploaded_item(r) == Row(r.user_id, r.name, 0, File("original", r.item_id))

\* A request to upload an item: the form field name stands for the
\* descriptive ones.
Upload(user_id, name, content_type) ==
  [op |-> "upload", user_id |-> user_id, item_id |-> NewItemId, name |-> name,
   content_type |-> content_type, pc |-> "validate", item |-> NoRow,
   status |-> 0, body |-> NoRow]
Uploads ==
  {Upload(u, name, ct) : u \in Users, name \in {"coat", "scarf"}, ct \in ContentTypes}

\* An upload has arrived at a server whose table holds StoredItems.
InitUpload ==
  /\ engine = RecommendationEngine
  /\ pc = "upload"
  /\ pc_usage = "idle"
  /\ clothing_items = StoredItems
  /\ upload_dir = {File("original", "a"), File("original", "b")}
  /\ \E up \in Uploads : requests = <<up>>
  /\ workers = 1
  /\ weather_temp = 0 /\ weather_condition = ""
  /\ ComposerIdle
  /\ AnalyserIdle
  /\ LookupIdle

\* The upload is at position at.
UploadAt(at) == pc = "upload" /\ requests[1].pc = at

\* The handler goes to position at.
UploadGoes(at) == requests' = [requests EXCEPT ![1].pc = at]

\* `if not file.content_type.startswith("image/"): raise HTTPException(400)`
ValidateUpload ==
  /\ UploadAt("validate")
  /\ requests' = [requests EXCEPT ![1] =
       IF is_image(@.content_type) THEN [@ EXCEPT !.pc = "write"]
       ELSE [@ EXCEPT !.pc = "done", !.status = 400]]
  /\ UNCHANGED <<clothing_items, upload_dir>>
  /\ HandlerFrame

\* A file is written: it is complete, or the write raises, before the file
\* is made or with a part of it on disk.
WriteOrRaise(file, at) ==
  \/ upload_dir' = upload_dir \cup {file} /\ UploadGoes(at)
  \/ upload_dir' \in {upload_dir, upload_dir \cup {file}} /\ UploadGoes("except")

\* `with file_path.open("wb") as buffer: shutil.copyfileobj(file.file, buffer)`
WriteFile ==
  /\ UploadAt("write")
  /\ WriteOrRaise(File("original", requests[1].item_id), "open")
  /\ UNCHANGED clothing_items
  /\ HandlerFrame

\* process_clothing_image up to the first save: Image.open, convert,
\* thumbnail and _enhance_image, any of which may raise on the uploaded bytes.
OpenImage ==
  /\ UploadAt("open")
  /\ \E raised \in BOOLEAN : UploadGoes(IF raised THEN "except" ELSE "save_processed")
  /\ UNCHANGED <<clothing_items, upload_dir>>
  /\ HandlerFrame

\* img.save(processed_path, "JPEG", quality=85, optimize=True)
SaveProcessed ==
  /\ UploadAt("save_processed")
  /\ WriteOrRaise(File("processed", requests[1].item_id), "save_thumb")
  /\ UNCHANGED clothing_items
  /\ HandlerFrame

\* thumb.save(thumbnail_path, "JPEG", quality=80)
SaveThumbnail ==
  /\ UploadAt("save_thumb")
  /\ WriteOrRaise(File("thumb", requests[1].item_id), "commit")
  /\ UNCHANGED clothing_items
  /\ HandlerFrame

\* db.add(item); db.commit(): the row is stored, or the commit raises and
\* no row is.
AddAndCommit ==
  /\ UploadAt("commit")
  /\ \/ /\ clothing_items' =
             [clothing_items EXCEPT ![requests[1].item_id] = uploaded_item(requests[1])]
        /\ UploadGoes("refresh")
     \/ /\ clothing_items' = clothing_items
        /\ UploadGoes("except")
  /\ UNCHANGED upload_dir
  /\ HandlerFrame

\* db.refresh(item) and the return of the handler; the SELECT of the refresh
\* may raise as any statement may.
RefreshAndReturn ==
  /\ UploadAt("refresh")
  /\ \/ LET r == requests[1]
        IN  requests' = [requests EXCEPT ![1] =
              [r EXCEPT !.pc = "done", !.status = 200,
                        !.body = clothing_items[r.item_id]]]
     \/ UploadGoes("except")
  /\ UNCHANGED <<clothing_items, upload_dir>>
  /\ HandlerFrame

\* `except Exception as e`: file_path is unlinked if it exists and the
\* handler raises HTTPException(500).
CleanUp ==
  /\ UploadAt("except")
  /\ upload_dir' = upload_dir \ {File("original", requests[1].item_id)}
  /\ requests' = [requests EXCEPT ![1] = [@ EXCEPT !.pc = "done", !.status = 500]]
  /\ UNCHANGED clothing_items
  /\ HandlerFrame

NextUpload ==
  \/ ValidateUpload
  \/ WriteFile
  \/ OpenImage
  \/ SaveProcessed
  \/ SaveThumbnail
  \/ AddAndCommit
  \/ RefreshAndReturn
  \/ CleanUp

SpecUpload == InitUpload /\ [][NextUpload]_vars

\* ------------------------------------------------------ claims on upload
\* C27: an upload that is answered with 500 leaves no file of its own (the
\* original, the processed image, the thumbnail) in the upload directory and
\* no row of its own in clothing_items.
C27_FailedUploadLeavesNothing ==
  \A rq \in DOMAIN requests :
    requests[rq].op = "upload" /\ requests[rq].status = 500
    => /\ \A kind \in UploadKinds : File(kind, requests[rq].item_id) \notin upload_dir
       /\ ~clothing_items[requests[rq].item_id].present

====
